---- MODULE Spec2Model ----
(***************************************************************************)
(* A model of parts of the Phaser game framework:                          *)
(*   - Arcade Physics tile separation on X (ProcessTileSeparationX) and    *)
(*     the vertical overlap check of a body pair (CheckOverlapY);          *)
(*   - the per-frame step of Phaser.Game;                                  *)
(*   - the Matter Pointer Constraint (onDown / update / stopDrag).         *)
(*   - the HTML5 Audio sound and the pool of audio tags of its key.        *)
(* Each subsystem has its own specification over the shared variables; a   *)
(* specification leaves the variables of the other subsystems unchanged.   *)
(* Numbers are integers: positions, velocities and bounce factors are      *)
(* drawn from small integer ranges.                                        *)
(***************************************************************************)
EXTENDS Integers, Sequences, FiniteSets, TLC

VARIABLES
    body,           \* Arcade body handed to the tile separation
    tileLast,       \* the last tile operation: its name, argument and the body before it
    body1,          \* first body of the CollisionInfo pair
    body2,          \* second body of the CollisionInfo pair
    collisionInfo,  \* the CollisionInfo of the pair as last refreshed
    overlapLast,    \* the last overlap operation, its result and the bodies before it
    game,           \* Phaser.Game: isBooted, isRunning, listeners, frame
    calls,          \* the calls Game.step made to its collaborators in the current frame
    gameLast,       \* the last Game operation
    pc,             \* PointerConstraint fields
    pointers,       \* the Scene's input pointers
    world,          \* bodies of the Matter world
    emitted,        \* events the Matter world emitted for the constraint, in order
    pcLast,         \* the last call of a constraint handler, its pointer and the state before it
    sounds,         \* the HTML5AudioSound objects of the sound manager, in its order
    tags,           \* the audio tags of the sounds' key
    manager,        \* the sound manager: override and the clock
    soundLast       \* the last call on a sound: its result, events and the state before it

tileVars == <<body, tileLast>>
overlapVars == <<body1, body2, collisionInfo, overlapLast>>
gameVars == <<game, calls, gameLast>>
pcVars == <<pc, pointers, world, emitted, pcLast>>
soundVars == <<sounds, tags, manager, soundLast>>
vars == <<body, tileLast, body1, body2, collisionInfo, overlapLast,
          game, calls, gameLast, pc, pointers, world, emitted, pcLast,
          sounds, tags, manager, soundLast>>

----
(* Bounds of the model *)

MaxSep == 2         \* separation amounts x range over -MaxSep..MaxSep
MaxPos == 3         \* body.position.x stays within -MaxPos..MaxPos
MaxVel == 2         \* body.velocity.x stays within -MaxVel..MaxVel
MaxBounce == 2      \* body.bounce.x ranges over 0..MaxBounce

----
(* Arcade Physics: tile separation on X *)

Faces == [up : BOOLEAN, down : BOOLEAN, left : BOOLEAN, right : BOOLEAN]

NoFaces == [up |-> FALSE, down |-> FALSE, left |-> FALSE, right |-> FALSE]

\* Variants of ProcessTileSeparationX with one slip each.
PTSX_SwappedFlags(b, x) ==
    LET flagged == IF x < 0 THEN [b EXCEPT !.blocked.right = TRUE]
                   ELSE IF x > 0 THEN [b EXCEPT !.blocked.left = TRUE]
                   ELSE b
        moved == [flagged EXCEPT !.position.x = @ - x]
    IN  IF moved.bounce.x = 0
        THEN [moved EXCEPT !.velocity.x = 0]
        ELSE [moved EXCEPT !.velocity.x = (-@) * moved.bounce.x]

PTSX_AddsOverlap(b, x) ==
    LET flagged == IF x < 0 THEN [b EXCEPT !.blocked.left = TRUE]
                   ELSE IF x > 0 THEN [b EXCEPT !.blocked.right = TRUE]
                   ELSE b
        moved == [flagged EXCEPT !.position.x = @ + x]
    IN  IF moved.bounce.x = 0
        THEN [moved EXCEPT !.velocity.x = 0]
        ELSE [moved EXCEPT !.velocity.x = (-@) * moved.bounce.x]

PTSX_NoReflection(b, x) ==
    LET flagged == IF x < 0 THEN [b EXCEPT !.blocked.left = TRUE]
                   ELSE IF x > 0 THEN [b EXCEPT !.blocked.right = TRUE]
                   ELSE b
        moved == [flagged EXCEPT !.position.x = @ - x]
    IN  IF moved.bounce.x = 0
        THEN [moved EXCEPT !.velocity.x = 0]
        ELSE [moved EXCEPT !.velocity.x = @ * moved.bounce.x]

PTSX_LeftOnly(b, x) ==
    LET flagged == IF x < 0 THEN [b EXCEPT !.blocked.left = TRUE] ELSE b
        moved == [flagged EXCEPT !.position.x = @ - x]
    IN  IF moved.bounce.x = 0
        THEN [moved EXCEPT !.velocity.x = 0]
        ELSE [moved EXCEPT !.velocity.x = (-@) * moved.bounce.x]

\* ProcessTileSeparationX(body, x): flag the blocked face by the sign of x,
\* move the body back by x, then bounce or stop the x velocity.
ProcessTileSeparationX(b, x) ==
    LET flagged == IF x < 0 THEN [b EXCEPT !.blocked.left = TRUE]
                   ELSE IF x > 0 THEN [b EXCEPT !.blocked.right = TRUE]
                   ELSE b
        moved == [flagged EXCEPT !.position.x = @ - x]
    IN  IF moved.bounce.x = 0
        THEN [moved EXCEPT !.velocity.x = 0]
        ELSE [moved EXCEPT !.velocity.x = (-@) * moved.bounce.x]

\* The tile collision cell: its colliding faces and its horizontal extent.
Tiles == [collideLeft : BOOLEAN, collideRight : BOOLEAN, left : {0}, right : {2}]

\* The gate in front of the separation: the face of the tile the body moves
\* into must collide, and the overlap must not be zero.
TileCheckX(b, t) ==
    LET bodyRight == b.position.x + b.width
        overlaps == b.position.x < t.right /\ bodyRight > t.left
        ox == IF b.velocity.x < 0 /\ t.collideRight /\ overlaps
              THEN b.position.x - t.right
              ELSE IF b.velocity.x > 0 /\ t.collideLeft /\ overlaps
              THEN bodyRight - t.left
              ELSE 0
    IN  IF ox # 0 THEN ProcessTileSeparationX(b, ox) ELSE b

InBounds(b) ==
    /\ b.position.x \in -MaxPos..MaxPos
    /\ b.velocity.x \in -MaxVel..MaxVel

InitTile ==
    /\ body \in [position : [x : -1..1, y : {0}],
                 velocity : [x : -1..1, y : {-1, 1}],
                 bounce : [x : 0..MaxBounce, y : {0}],
                 blocked : Faces,
                 width : {2},
                 immovable : BOOLEAN]
    /\ tileLast = [op |-> "none", x |-> 0, tile |-> CHOOSE t \in Tiles : TRUE, pre |-> body]

\* A direct call ProcessTileSeparationX(body, x).
SeparateX ==
    \E x \in -MaxSep..MaxSep :
        /\ InBounds(ProcessTileSeparationX(body, x))
        /\ body' = ProcessTileSeparationX(body, x)
        /\ tileLast' = [op |-> "ProcessTileSeparationX", x |-> x,
                        tile |-> tileLast.tile, pre |-> body]

\* The body is checked against one tile of the layer.
CheckTileX ==
    \E t \in Tiles :
        /\ InBounds(TileCheckX(body, t))
        /\ body' = TileCheckX(body, t)
        /\ tileLast' = [op |-> "TileCheckX", x |-> 0, tile |-> t, pre |-> body]

----
(* Arcade Physics: the vertical overlap check of a body pair *)

MaxCoord == 5       \* body1 moves over 0..MaxCoord on both axes

FACING_NONE == "FACING_NONE"
FACING_UP == "FACING_UP"
FACING_DOWN == "FACING_DOWN"
FACING_LEFT == "FACING_LEFT"
FACING_RIGHT == "FACING_RIGHT"

Touch == [up : BOOLEAN, down : BOOLEAN, left : BOOLEAN, right : BOOLEAN, none : BOOLEAN]

NoTouch == [up |-> FALSE, down |-> FALSE, left |-> FALSE, right |-> FALSE, none |-> TRUE]

Min(a, b) == IF a < b THEN a ELSE b

Max(a, b) == IF a > b THEN a ELSE b

\* Body.setTouchingUp / setTouchingDown / setBlockedUp / setBlockedDown
setTouchingUp(b) == [b EXCEPT !.touching.up = TRUE, !.touching.none = FALSE]

setTouchingDown(b) == [b EXCEPT !.touching.down = TRUE, !.touching.none = FALSE]

setBlockedUp(b) == [b EXCEPT !.blocked.up = TRUE]

setBlockedDown(b) == [b EXCEPT !.blocked.down = TRUE]

\* CollisionInfo.update: the AABB intersection of the two bodies as they are
\* now; the face is on the axis of least penetration, NONE without intersection.
CollisionInfoUpdate(b1, b2) ==
    LET overlapX == Min(b1.x + b1.width, b2.x + b2.width) - Max(b1.x, b2.x)
        overlapY == Min(b1.y + b1.height, b2.y + b2.height) - Max(b1.y, b2.y)
        intersects == overlapX >= 0 /\ overlapY >= 0
        vertical == overlapY <= overlapX
        face == IF ~intersects THEN FACING_NONE
                ELSE IF vertical
                THEN (IF b1.y < b2.y THEN FACING_DOWN ELSE FACING_UP)
                ELSE (IF b1.x < b2.x THEN FACING_RIGHT ELSE FACING_LEFT)
    IN  [intersects |-> intersects,
         overlapX |-> overlapX,
         overlapY |-> overlapY,
         face |-> face,
         touching |-> intersects /\ (IF vertical THEN overlapY = 0 ELSE overlapX = 0)]

\* Variants of CheckOverlapY with one slip each: both bodies flagged with
\* the same face; any face but UP treated as DOWN.
CheckOverlapY_SameFace(b1, b2) ==
    LET info == CollisionInfoUpdate(b1, b2)
    IN  IF info.face = FACING_UP
        THEN [info |-> info,
              body1 |-> setBlockedUp(setTouchingUp(b1)),
              body2 |-> setBlockedUp(setTouchingUp(b2)),
              ret |-> info.touching]
        ELSE IF info.face = FACING_DOWN
        THEN [info |-> info,
              body1 |-> setBlockedDown(setTouchingDown(b1)),
              body2 |-> setBlockedDown(setTouchingDown(b2)),
              ret |-> info.touching]
        ELSE [info |-> info, body1 |-> b1, body2 |-> b2, ret |-> info.touching]

CheckOverlapY_ElseDown(b1, b2) ==
    LET info == CollisionInfoUpdate(b1, b2)
    IN  IF info.face = FACING_UP
        THEN [info |-> info,
              body1 |-> setBlockedUp(setTouchingUp(b1)),
              body2 |-> setBlockedDown(setTouchingDown(b2)),
              ret |-> info.touching]
        ELSE [info |-> info,
              body1 |-> setBlockedDown(setTouchingDown(b1)),
              body2 |-> setBlockedUp(setTouchingUp(b2)),
              ret |-> info.touching]

\* CheckOverlapY(body, collisionInfo): refresh the CollisionInfo, flag the
\* two bodies by its face, return its touching. The result is the refreshed
\* info, the two bodies and the returned value.
CheckOverlapY(b1, b2) ==
    LET info == CollisionInfoUpdate(b1, b2)
    IN  IF info.face = FACING_UP
        THEN [info |-> info,
              body1 |-> setBlockedUp(setTouchingUp(b1)),
              body2 |-> setBlockedDown(setTouchingDown(b2)),
              ret |-> info.touching]
        ELSE IF info.face = FACING_DOWN
        THEN [info |-> info,
              body1 |-> setBlockedDown(setTouchingDown(b1)),
              body2 |-> setBlockedUp(setTouchingUp(b2)),
              ret |-> info.touching]
        ELSE [info |-> info, body1 |-> b1, body2 |-> b2, ret |-> info.touching]

NewBody(x, y) ==
    [x |-> x, y |-> y, width |-> 2, height |-> 2, touching |-> NoTouch, blocked |-> NoFaces]

InitOverlap ==
    /\ body1 \in {NewBody(x, y) : x \in 0..MaxCoord, y \in 0..MaxCoord}
    /\ body2 = NewBody(2, 2)
    /\ collisionInfo = CollisionInfoUpdate(body1, body2)
    /\ overlapLast = [op |-> "none", ret |-> FALSE, pre1 |-> body1, pre2 |-> body2]

\* The integrator moves body1; the CollisionInfo of the pair goes stale.
MoveBody1 ==
    \E dx \in -1..1, dy \in -1..1 :
        /\ <<dx, dy>> # <<0, 0>>
        /\ body1.x + dx \in 0..MaxCoord
        /\ body1.y + dy \in 0..MaxCoord
        /\ body1' = [body1 EXCEPT !.x = @ + dx, !.y = @ + dy]
        /\ overlapLast' = [op |-> "move", ret |-> FALSE, pre1 |-> body1, pre2 |-> body2]
        /\ UNCHANGED <<body2, collisionInfo>>

\* The start of a step resets the touching and blocked flags of both bodies.
ResetFlags ==
    /\ body1' = [body1 EXCEPT !.touching = NoTouch, !.blocked = NoFaces]
    /\ body2' = [body2 EXCEPT !.touching = NoTouch, !.blocked = NoFaces]
    /\ overlapLast' = [op |-> "reset", ret |-> FALSE, pre1 |-> body1, pre2 |-> body2]
    /\ UNCHANGED collisionInfo

DoCheckOverlapY ==
    LET r == CheckOverlapY(body1, body2)
    IN  /\ collisionInfo' = r.info
        /\ body1' = r.body1
        /\ body2' = r.body2
        /\ overlapLast' = [op |-> "CheckOverlapY", ret |-> r.ret, pre1 |-> body1, pre2 |-> body2]

----
(* Phaser.Game: boot, start and the per-frame step *)

MaxTime == 4        \* the loop's timestamps range over 1..MaxTime
MaxReady == 2       \* at most MaxReady 'ready' events are emitted

NoCall == [input |-> 0, sound |-> 0, callback |-> 0, scene |-> 0]

\* The collaborators of Game.step. Each records the timestamp it last ran
\* with; the renderer and the scene's render record what they saw.
InputUpdate(s, time) == [s EXCEPT !.updated.input = time, !.calls = Append(@, "input.update")]

SoundUpdate(s, time) == [s EXCEPT !.updated.sound = time, !.calls = Append(@, "sound.update")]

OnStepCallback(s, time) ==
    [s EXCEPT !.updated.callback = time, !.calls = Append(@, "onStepCallback")]

SceneUpdate(s, time) == [s EXCEPT !.updated.scene = time, !.calls = Append(@, "scene.update")]

PreRender(s) == [s EXCEPT !.preRenderSaw = s.updated, !.calls = Append(@, "renderer.preRender")]

Emit(s, event) == [s EXCEPT !.calls = Append(@, event)]

SceneRender(s) == [s EXCEPT !.renderSaw = s.updated, !.calls = Append(@, "scene.render")]

PostRender(s) == [s EXCEPT !.calls = Append(@, "renderer.postRender")]

\* A variant of Game.step that renders the scene before it updates it.
GameStep_RenderFirst(s, time) ==
    LET s1 == InputUpdate(s, time)
        s2 == SoundUpdate(s1, time)
        s3 == OnStepCallback(s2, time)
        s4 == PreRender(s3)
        s5 == Emit(s4, "prerender")
        s6 == SceneRender(s5)
        s7 == SceneUpdate(s6, time)
        s8 == PostRender(s7)
    IN  Emit(s8, "postrender")

\* Game.step(time, delta), on the frame state s.
GameStep(s, time) ==
    LET s1 == InputUpdate(s, time)
        s2 == SoundUpdate(s1, time)
        s3 == OnStepCallback(s2, time)
        s4 == SceneUpdate(s3, time)
        s5 == PreRender(s4)
        s6 == Emit(s5, "prerender")
        s7 == SceneRender(s6)
        s8 == PostRender(s7)
    IN  Emit(s8, "postrender")

InitGame ==
    /\ game = [isBooted |-> FALSE, isRunning |-> FALSE,
               readyListeners |-> 0, readyEmitted |-> 0,
               loop |-> [callbacks |-> 0, paused |-> FALSE, inFocus |-> TRUE],
               handlers |-> 0, onStepCallback |-> "NOOP",
               time |-> 0, delta |-> 0,
               updated |-> NoCall, preRenderSaw |-> NoCall, renderSaw |-> NoCall]
    /\ calls = << >>
    /\ gameLast = "none"

\* Game.boot, called once when the DOM content has loaded.
Boot ==
    /\ ~game.isBooted
    /\ game' = [game EXCEPT !.isBooted = TRUE, !.readyListeners = @ + 1]
    /\ gameLast' = "boot"
    /\ UNCHANGED calls

\* Game.start
GameStart(g) ==
    [g EXCEPT !.isRunning = TRUE, !.loop.callbacks = @ + 1, !.handlers = @ + 1]

\* Game.onHidden / onVisible / onBlur / onFocus
onHidden(g) == [g EXCEPT !.loop.paused = TRUE]

onVisible(g) == [g EXCEPT !.loop.paused = FALSE]

onBlur(g) == [g EXCEPT !.loop.inFocus = FALSE]

onFocus(g) == [g EXCEPT !.loop.inFocus = TRUE]

EmitReady_KeepsListener ==
    /\ game.readyEmitted < MaxReady
    /\ game' = IF game.readyListeners > 0
               THEN [GameStart(game) EXCEPT !.readyEmitted = @ + 1]
               ELSE [game EXCEPT !.readyEmitted = @ + 1]
    /\ gameLast' = "ready"
    /\ UNCHANGED calls

\* The Texture Manager emits 'ready'; a once-listener runs and is removed.
EmitReady ==
    /\ game.readyEmitted < MaxReady
    /\ game' = IF game.readyListeners > 0
               THEN [GameStart(game) EXCEPT !.readyListeners = 0, !.readyEmitted = @ + 1]
               ELSE [game EXCEPT !.readyEmitted = @ + 1]
    /\ gameLast' = "ready"
    /\ UNCHANGED calls

\* The loop calls the step callback it was started with, once per frame.
Step ==
    \E time \in 1..MaxTime, delta \in 1..2 :
        /\ game.loop.callbacks > 0
        /\ time > game.time
        /\ LET s == GameStep([updated |-> game.updated,
                              preRenderSaw |-> game.preRenderSaw,
                              renderSaw |-> game.renderSaw,
                              calls |-> << >>], time)
           IN  /\ game' = [game EXCEPT !.time = time, !.delta = delta,
                                       !.updated = s.updated,
                                       !.preRenderSaw = s.preRenderSaw,
                                       !.renderSaw = s.renderSaw]
               /\ calls' = s.calls
        /\ gameLast' = "step"

\* The Visibility Handler emits 'hidden', 'visible', 'blur' or 'focus'; the
\* handlers Game.start registered run.
Visibility ==
    \E event \in {"hidden", "visible", "blur", "focus"} :
        /\ game.handlers > 0
        /\ game' = CASE event = "hidden" -> onHidden(game)
                     [] event = "visible" -> onVisible(game)
                     [] event = "blur" -> onBlur(game)
                     [] event = "focus" -> onFocus(game)
        /\ gameLast' = event
        /\ UNCHANGED calls

\* The game installs or removes its onStepCallback.
SetOnStepCallback ==
    /\ game' = [game EXCEPT !.onStepCallback = IF @ = "NOOP" THEN "custom" ELSE "NOOP"]
    /\ gameLast' = "setcallback"
    /\ UNCHANGED calls

----
(* Matter physics: the Pointer Constraint.                                 *)
(* Geometry is one-dimensional: a point is its x, bounds and vertices are  *)
(* closed intervals. null is 0; bodies, parts, pointers and cameras are    *)
(* referred to by their index, from 1.                                     *)

MaxEvents == 4      \* at most MaxEvents events are recorded
MaxX == 2           \* a pointer's x ranges over 0..MaxX

\* Camera.getWorldPoint: the camera's scroll offset is added.
CameraScroll == <<0, 1>>

getWorldPoint(camera, x) == x + CameraScroll[camera]

\* Bounds.contains and Vertices.contains
BoundsContains(bounds, point) == point >= bounds.min /\ point <= bounds.max

VerticesContains(vertices, point) == point >= vertices.min /\ point <= vertices.max

\* Detector.canCollide; category and mask are sets of bits.
canCollide(filterA, filterB) ==
    IF filterA.group = filterB.group /\ filterA.group # 0
    THEN filterA.group > 0
    ELSE /\ (filterA.mask \cap filterB.category) # {}
         /\ (filterB.mask \cap filterA.category) # {}

AllBits == {1, 2}

DefaultFilter == [category |-> {1}, mask |-> AllBits, group |-> 0]

Interval(a, b) == [min |-> a, max |-> b]

SimpleBody(a, b) ==
    [ignorePointer |-> FALSE, bounds |-> Interval(a, b), position |-> a,
     collisionFilter |-> DefaultFilter, parts |-> <<Interval(a, b)>>]

\* The bodies a world is made of: two plain bodies, one that ignores the
\* pointer, one whose filter excludes the constraint's category, and a
\* compound body whose hull (part 0) covers more than its one child part.
BodyPool ==
    { SimpleBody(0, 1),
      SimpleBody(1, 3),
      [SimpleBody(0, 3) EXCEPT !.ignorePointer = TRUE],
      [SimpleBody(0, 3) EXCEPT !.collisionFilter.mask = {2}],
      [SimpleBody(0, 3) EXCEPT !.parts = <<Interval(0, 3), Interval(3, 3)>>] }

\* The constructor's fields and the constraint's defaults.
NewPointerConstraint ==
    [pointer |-> 0, camera |-> 0, active |-> TRUE, position |-> 0,
     body |-> 0, part |-> 0,
     constraint |-> [bodyB |-> 0, pointA |-> 0, pointB |-> 0,
                     collisionFilter |-> DefaultFilter]]

WorldEmit(st, type, b) ==
    [st EXCEPT !.emitted = Append(@, [type |-> type, body |-> b])]

\* The first part of the body, from index i, that contains the position; 0 if none.
RECURSIVE FirstPartFrom(_, _, _)
FirstPartFrom(parts, i, position) ==
    IF i > Len(parts) THEN 0
    ELSE IF VerticesContains(parts[i], position) THEN i
    ELSE FirstPartFrom(parts, i + 1, position)

\* A variant of hitTestBody that also tests part 0 of a compound body.
hitTestBody_FromPartZero(st, b, position) ==
    LET parts == world[b].parts
        part == FirstPartFrom(parts, 1, position)
    IN  IF part # 0
        THEN [st |-> [st EXCEPT !.pc.constraint.bodyB = b,
                                !.pc.constraint.pointA = position,
                                !.pc.constraint.pointB = position - world[b].position,
                                !.pc.part = part,
                                !.pc.body = b],
              ret |-> TRUE]
        ELSE [st |-> st, ret |-> FALSE]

\* hitTestBody(body, position): the result is the state and the value returned.
hitTestBody(st, b, position) ==
    LET parts == world[b].parts
        start == IF Len(parts) > 1 THEN 2 ELSE 1
        part == FirstPartFrom(parts, start, position)
    IN  IF part # 0
        THEN [st |-> [st EXCEPT !.pc.constraint.bodyB = b,
                                !.pc.constraint.pointA = position,
                                !.pc.constraint.pointB = position - world[b].position,
                                !.pc.part = part,
                                !.pc.body = b],
              ret |-> TRUE]
        ELSE [st |-> st, ret |-> FALSE]

\* The loop of getBody over Composite.allBodies, from index i.
RECURSIVE getBodyFrom(_, _)
getBodyFrom(st, i) ==
    IF i > Len(world) THEN [st |-> st, ret |-> FALSE]
    ELSE IF /\ ~world[i].ignorePointer
            /\ BoundsContains(world[i].bounds, st.pc.position)
            /\ canCollide(world[i].collisionFilter, st.pc.constraint.collisionFilter)
            /\ hitTestBody(st, i, st.pc.position).ret
    THEN LET hit == hitTestBody(st, i, st.pc.position).st
         IN  [st |-> WorldEmit(hit, "DRAG_START", hit.pc.body), ret |-> TRUE]
    ELSE getBodyFrom(st, i + 1)

\* getBody(pointer)
getBody(st, pointer) ==
    getBodyFrom([st EXCEPT !.pc.position = getWorldPoint(pointer.camera, pointer.x)], 1)

\* A variant of onDown that tests for a hit whether or not a pointer is active.
onDown_NoPointerCheck(st, pointer) ==
    LET r == getBody(st, pointer)
    IN  IF r.ret
        THEN [r.st EXCEPT !.pc.pointer = pointer.id, !.pc.camera = pointer.camera]
        ELSE r.st

\* onDown(pointer)
onDown(st, pointer) ==
    IF st.pc.pointer = 0
    THEN LET r == getBody(st, pointer)
         IN  IF r.ret
             THEN [r.st EXCEPT !.pc.pointer = pointer.id, !.pc.camera = pointer.camera]
             ELSE r.st
    ELSE st

\* A variant of stopDrag that forgets to clear the body.
stopDrag_KeepsBody(st) ==
    IF st.pc.body # 0
    THEN [WorldEmit(st, "DRAG_END", st.pc.body)
             EXCEPT !.pc.pointer = 0, !.pc.part = 0, !.pc.constraint.bodyB = 0]
    ELSE st

\* A variant of stopDrag that leaves the body attached to the constraint.
stopDrag_KeepsBodyB(st) ==
    IF st.pc.body # 0
    THEN [WorldEmit(st, "DRAG_END", st.pc.body)
             EXCEPT !.pc.pointer = 0, !.pc.body = 0, !.pc.part = 0]
    ELSE st

\* stopDrag()
stopDrag(st) ==
    IF st.pc.body # 0
    THEN [WorldEmit(st, "DRAG_END", st.pc.body)
             EXCEPT !.pc.pointer = 0, !.pc.body = 0, !.pc.part = 0,
                    !.pc.constraint.bodyB = 0]
    ELSE st

\* A variant of update that does not look at active.
update_IgnoresActive(st) ==
    IF st.pc.pointer = 0 \/ st.pc.body = 0
    THEN st
    ELSE IF pointers[st.pc.pointer].isDown
    THEN LET pos == getWorldPoint(st.pc.camera, pointers[st.pc.pointer].x)
         IN  WorldEmit([st EXCEPT !.pc.position = pos, !.pc.constraint.pointA = pos],
                       "DRAG", st.pc.body)
    ELSE stopDrag(st)

\* update(), the handler of the world's BEFORE_UPDATE
update(st) ==
    IF ~st.pc.active \/ st.pc.pointer = 0 \/ st.pc.body = 0
    THEN st
    ELSE IF pointers[st.pc.pointer].isDown
    THEN LET pos == getWorldPoint(st.pc.camera, pointers[st.pc.pointer].x)
         IN  WorldEmit([st EXCEPT !.pc.position = pos, !.pc.constraint.pointA = pos],
                       "DRAG", st.pc.body)
    ELSE stopDrag(st)

Now == [pc |-> pc, emitted |-> emitted]

NoPointer == [id |-> 0, x |-> 0, isDown |-> FALSE, camera |-> 0]

\* The record of a handler call, and that of any other step.
Called(op, pointer) == [op |-> op, pointer |-> pointer, pre |-> pc, n |-> Len(emitted)]

NotAHandler == [op |-> "none", pointer |-> NoPointer, pre |-> NewPointerConstraint, n |-> 0]

InitPC ==
    /\ pc = NewPointerConstraint
    /\ pointers = [p \in 1..2 |-> [id |-> p, x |-> 0, isDown |-> FALSE, camera |-> p]]
    /\ world \in [1..2 -> BodyPool]
    /\ emitted = << >>
    /\ pcLast = NotAHandler

CanEmit == Len(emitted) < MaxEvents

\* A pointer is pressed: the input system marks it down and emits POINTER_DOWN, which the constraint handles in onDown.
PointerDown ==
    \E p \in DOMAIN pointers :
        LET pressed == [pointers[p] EXCEPT !.isDown = TRUE]
            st == onDown(Now, pressed)
        IN  /\ CanEmit
            /\ pointers' = [pointers EXCEPT ![p] = pressed]
            /\ pc' = st.pc
            /\ emitted' = st.emitted
            /\ pcLast' = Called("onDown", pressed)
            /\ UNCHANGED world

\* A pointer is released.
PointerUp ==
    \E p \in DOMAIN pointers :
        /\ pointers[p].isDown
        /\ pointers' = [pointers EXCEPT ![p].isDown = FALSE]
        /\ pcLast' = NotAHandler
        /\ UNCHANGED <<pc, world, emitted>>

\* A pointer moves.
PointerMove ==
    \E p \in DOMAIN pointers, x \in 0..MaxX :
        /\ x # pointers[p].x
        /\ pointers' = [pointers EXCEPT ![p].x = x]
        /\ pcLast' = NotAHandler
        /\ UNCHANGED <<pc, world, emitted>>

\* The world steps: BEFORE_UPDATE runs the constraint's update.
Update ==
    /\ CanEmit
    /\ pc' = update(Now).pc
    /\ emitted' = update(Now).emitted
    /\ pcLast' = Called("update", NoPointer)
    /\ UNCHANGED <<pointers, world>>

\* The game calls stopDrag.
StopDrag ==
    /\ CanEmit
    /\ pc' = stopDrag(Now).pc
    /\ emitted' = stopDrag(Now).emitted
    /\ pcLast' = Called("stopDrag", NoPointer)
    /\ UNCHANGED <<pointers, world>>

\* The game toggles the constraint on or off.
SetActive ==
    /\ pc' = [pc EXCEPT !.active = ~@]
    /\ pcLast' = NotAHandler
    /\ UNCHANGED <<pointers, world, emitted>>

----
(* HTML5 Audio: HTML5AudioSound and its pool of audio tags.                *)
(* null is 0; a sound's audio is the index of its tag. Times of the tags   *)
(* are whole seconds, the clock counts milliseconds in whole seconds. The  *)
(* manager is unlocked (isLocked is false throughout). play is always      *)
(* given a complete config (seek, delay, loop).                            *)

MaxNow == 3         \* the clock runs up to MaxNow seconds
MaxSeek == 3        \* seek is set to values in -1..MaxSeek
MaxDelay == 1       \* play is given a delay in 0..MaxDelay

\* The markers of a sound, by name; "" is no marker.
Markers == [m |-> [start |-> 1, duration |-> 2]]

MarkerStart(snd) ==
    IF snd.currentMarker = "" THEN 0 ELSE Markers[snd.currentMarker].start

\* The constructor: the durations are that of the first tag.
NewSound(duration) ==
    [key |-> "a", isPlaying |-> FALSE, isPaused |-> FALSE, pendingRemove |-> FALSE,
     audio |-> 0, startTime |-> 0, previousTime |-> 0,
     duration |-> duration, totalDuration |-> duration,
     currentMarker |-> "",
     currentConfig |-> [seek |-> 0, delay |-> 0, loop |-> FALSE]]

NewTag(duration) == [used |-> FALSE, paused |-> TRUE, currentTime |-> 0, duration |-> duration]

\* The state the methods work on: the sounds, the tags, the events emitted
\* and the value returned; threw is set when a method dereferences null.
Calling == [sounds |-> sounds, tags |-> tags, events |-> << >>, ret |-> FALSE, threw |-> FALSE]

Returns(st, value) == [st EXCEPT !.ret = value]

SoundEmit(st, event, s) == [st EXCEPT !.events = Append(@, <<event, s>>)]

SoundEmitValue(st, event, s, value) == [st EXCEPT !.events = Append(@, <<event, s, value>>)]

\* The media element keeps currentTime within 0 and its duration.
TagTime(st, t, time) ==
    Max(0, Min(time, st.tags[t].duration))

\* BaseSound.resetConfig
resetConfig(st, s) ==
    [st EXCEPT !.sounds[s].currentConfig.seek = 0, !.sounds[s].currentConfig.delay = 0]

\* BaseSound.play: isPlaying = true, isPaused = false; false for an unknown marker.
BaseSoundPlay(st, s, markerName, config) ==
    IF markerName # "" /\ markerName \notin DOMAIN Markers
    THEN Returns(st, FALSE)
    ELSE Returns([st EXCEPT !.sounds[s].currentMarker = markerName,
                            !.sounds[s].duration =
                                IF markerName = "" THEN st.sounds[s].totalDuration
                                ELSE Markers[markerName].duration,
                            !.sounds[s].currentConfig = config,
                            !.sounds[s].isPlaying = TRUE,
                            !.sounds[s].isPaused = FALSE], TRUE)

\* BaseSound.pause: isPlaying = false, isPaused = true
BaseSoundPause(st, s) ==
    IF st.sounds[s].isPaused \/ ~st.sounds[s].isPlaying
    THEN Returns(st, FALSE)
    ELSE Returns([st EXCEPT !.sounds[s].isPlaying = FALSE, !.sounds[s].isPaused = TRUE], TRUE)

\* BaseSound.resume: isPlaying = true, isPaused = false
BaseSoundResume(st, s) ==
    IF ~st.sounds[s].isPaused \/ st.sounds[s].isPlaying
    THEN Returns(st, FALSE)
    ELSE Returns([st EXCEPT !.sounds[s].isPlaying = TRUE, !.sounds[s].isPaused = FALSE], TRUE)

\* BaseSound.stop: isPlaying = false, isPaused = false
BaseSoundStop(st, s) ==
    IF ~st.sounds[s].isPaused /\ ~st.sounds[s].isPlaying
    THEN Returns(st, FALSE)
    ELSE Returns(resetConfig([st EXCEPT !.sounds[s].isPlaying = FALSE,
                                        !.sounds[s].isPaused = FALSE], s), TRUE)

\* reset()
reset(st, s) == BaseSoundStop(st, s)

\* The seek getter
seekGet(st, s) ==
    IF st.sounds[s].isPlaying
    THEN st.tags[st.sounds[s].audio].currentTime - MarkerStart(st.sounds[s])
    ELSE IF st.sounds[s].isPaused
    THEN st.sounds[s].currentConfig.seek
    ELSE 0

\* stopAndReleaseAudioTag(); this.audio.pause() throws when audio is null.
stopAndReleaseAudioTag(st, s) ==
    LET t == st.sounds[s].audio
    IN  IF t = 0
        THEN [st EXCEPT !.threw = TRUE]
        ELSE [st EXCEPT !.tags[t].paused = TRUE,
                        !.tags[t].used = FALSE,
                        !.sounds[s].audio = 0,
                        !.sounds[s].startTime = 0,
                        !.sounds[s].previousTime = 0]

\* forEachActiveSound with the filter of pickAudioTag: the sounds of the
\* same key that hold a tag, in the manager's order.
OtherSounds(st, s) ==
    {o \in DOMAIN st.sounds :
        /\ ~st.sounds[o].pendingRemove
        /\ st.sounds[o].key = st.sounds[s].key
        /\ st.sounds[o].audio # 0}

SortsBefore_LeastProgress(st, a1, a2) ==
    IF st.sounds[a1].currentConfig.loop = st.sounds[a2].currentConfig.loop
    THEN seekGet(st, a1) * st.sounds[a2].duration < seekGet(st, a2) * st.sounds[a1].duration
    ELSE ~st.sounds[a1].currentConfig.loop

\* The comparator of the sort is negative: a1 comes before a2. Progress is
\* seek / duration, compared without division (durations are positive).
SortsBefore(st, a1, a2) ==
    IF st.sounds[a1].currentConfig.loop = st.sounds[a2].currentConfig.loop
    THEN seekGet(st, a2) * st.sounds[a1].duration < seekGet(st, a1) * st.sounds[a2].duration
    ELSE ~st.sounds[a1].currentConfig.loop

\* otherSounds[0] after the (stable) sort.
SelectedSound(st, s) ==
    LET others == OtherSounds(st, s)
        best == {o \in others : \A q \in others : ~SortsBefore(st, q, o)}
    IN  CHOOSE o \in best : \A q \in best : o <= q

\* pickAudioTag()
pickAudioTag(st, s) ==
    LET unused == {i \in DOMAIN st.tags : ~st.tags[i].used}
    IN  IF st.sounds[s].audio # 0
        THEN Returns(st, TRUE)
        ELSE IF unused # {}
        THEN LET i == CHOOSE i \in unused : \A j \in unused : i <= j
             IN  Returns([st EXCEPT !.tags[i].used = TRUE, !.sounds[s].audio = i], TRUE)
        ELSE IF ~manager.override
        THEN Returns(st, FALSE)
        ELSE IF OtherSounds(st, s) = {}
        THEN [st EXCEPT !.threw = TRUE]
        ELSE LET selected == SelectedSound(st, s)
                 taken == [st EXCEPT !.sounds[s].audio = st.sounds[selected].audio]
                 stopped == reset(taken, selected)
             IN  Returns([stopped EXCEPT !.sounds[selected].audio = 0,
                                         !.sounds[selected].startTime = 0,
                                         !.sounds[selected].previousTime = 0], TRUE)

pickAndPlayAudioTag_NoReset(st, s) ==
    LET picked == pickAudioTag(st, s)
    IN  IF picked.threw THEN picked
        ELSE IF ~picked.ret
        THEN Returns(picked, FALSE)
        ELSE LET snd == picked.sounds[s]
                 offset == MarkerStart(snd) + snd.currentConfig.seek
                 t == snd.audio
             IN  Returns(resetConfig([picked EXCEPT !.sounds[s].previousTime = offset,
                                                    !.sounds[s].startTime = 0,
                                                    !.tags[t].currentTime = TagTime(picked, t, offset),
                                                    !.tags[t].paused = FALSE], s), TRUE)

\* pickAndPlayAudioTag()
pickAndPlayAudioTag(st, s) ==
    LET picked == pickAudioTag(st, s)
    IN  IF picked.threw THEN picked
        ELSE IF ~picked.ret
        THEN Returns(reset(picked, s), FALSE)
        ELSE LET snd == picked.sounds[s]
                 seek == snd.currentConfig.seek
                 delay == snd.currentConfig.delay
                 offset == MarkerStart(snd) + seek
                 t == snd.audio
                 placed == [picked EXCEPT !.sounds[s].previousTime = offset,
                                          !.tags[t].currentTime = TagTime(picked, t, offset)]
                 started == IF delay = 0
                            THEN [placed EXCEPT !.sounds[s].startTime = 0,
                                                !.tags[t].paused = FALSE]
                            ELSE [placed EXCEPT !.sounds[s].startTime =
                                                    manager.now + delay * 1000,
                                                !.tags[t].paused = TRUE]
             IN  Returns(resetConfig(started, s), TRUE)

\* play(markerName, config)
play(st, s, markerName, config) ==
    LET based == BaseSoundPlay(st, s, markerName, config)
        picked == pickAndPlayAudioTag(based, s)
    IN  IF ~based.ret THEN Returns(based, FALSE)
        ELSE IF picked.threw THEN picked
        ELSE IF ~picked.ret THEN Returns(picked, FALSE)
        ELSE Returns(SoundEmit(picked, "PLAY", s), TRUE)

\* pause()
pause(st, s) ==
    LET based == BaseSoundPause(st, s)
        snd == based.sounds[s]
        kept == [based EXCEPT !.sounds[s].currentConfig.seek =
                     based.tags[snd.audio].currentTime - MarkerStart(snd)]
    IN  IF st.sounds[s].startTime > 0 THEN Returns(st, FALSE)
        ELSE IF ~based.ret THEN Returns(based, FALSE)
        ELSE Returns(SoundEmit(stopAndReleaseAudioTag(kept, s), "PAUSE", s), TRUE)

\* resume()
resume(st, s) ==
    LET based == BaseSoundResume(st, s)
        picked == pickAndPlayAudioTag(based, s)
    IN  IF st.sounds[s].startTime > 0 THEN Returns(st, FALSE)
        ELSE IF ~based.ret THEN Returns(based, FALSE)
        ELSE IF picked.threw THEN picked
        ELSE IF ~picked.ret THEN Returns(picked, FALSE)
        ELSE Returns(SoundEmit(picked, "RESUME", s), TRUE)

\* stop()
stop(st, s) ==
    LET based == BaseSoundStop(st, s)
        released == stopAndReleaseAudioTag(based, s)
    IN  IF ~based.ret THEN Returns(based, FALSE)
        ELSE IF released.threw THEN released
        ELSE Returns(SoundEmit(released, "STOP", s), TRUE)

\* HTML5AudioSound.update(time, delta). audioPlayDelay and loopEndOffset are fractions of
\* the unit of time, so on whole times the comparisons are < and >=.
soundUpdate_NoRelease(st, s, time) ==
    LET snd == st.sounds[s]
        t == snd.audio
        currentTime == st.tags[t].currentTime
        endTime == MarkerStart(snd) + snd.duration
    IN  IF ~snd.isPlaying THEN st
        ELSE IF snd.startTime > 0 THEN st
        ELSE IF ~snd.currentConfig.loop /\ currentTime >= endTime
        THEN SoundEmit(reset(st, s), "COMPLETE", s)
        ELSE [st EXCEPT !.sounds[s].previousTime = currentTime]

soundUpdate(st, s, time) ==
    LET snd == st.sounds[s]
        t == snd.audio
        currentTime == st.tags[t].currentTime
        startTime == MarkerStart(snd)
        endTime == startTime + snd.duration
        wrapped == IF currentTime >= endTime
                   THEN TagTime(st, t, startTime + Max(0, currentTime - endTime))
                   ELSE IF currentTime < startTime
                   THEN TagTime(st, t, currentTime + startTime)
                   ELSE currentTime
        looped == [st EXCEPT !.tags[t].currentTime = wrapped,
                             !.sounds[s].previousTime = wrapped]
    IN  IF ~snd.isPlaying THEN st
        ELSE IF snd.startTime > 0
        THEN IF snd.startTime < time
             THEN LET moved == TagTime(st, t, currentTime + Max(0, time - snd.startTime) \div 1000)
                  IN  [st EXCEPT !.tags[t].currentTime = moved,
                                 !.tags[t].paused = FALSE,
                                 !.sounds[s].startTime = 0,
                                 !.sounds[s].previousTime = moved]
             ELSE st
        ELSE IF snd.currentConfig.loop
        THEN IF wrapped < snd.previousTime
             THEN SoundEmit(looped, "LOOPED", s)
             ELSE looped
        ELSE IF currentTime >= endTime
        THEN SoundEmit(stopAndReleaseAudioTag(reset(st, s), s), "COMPLETE", s)
        ELSE [st EXCEPT !.sounds[s].previousTime = currentTime]

\* The seek setter
seekSet_NoClamp(st, s, value) ==
    LET snd == st.sounds[s]
    IN  IF snd.startTime > 0 THEN st
        ELSE IF snd.isPlaying
        THEN SoundEmitValue([st EXCEPT !.sounds[s].previousTime = value,
                                       !.tags[snd.audio].currentTime = TagTime(st, snd.audio, value)],
                            "SEEK", s, value)
        ELSE IF snd.isPaused
        THEN SoundEmitValue([st EXCEPT !.sounds[s].currentConfig.seek = value],
                            "SEEK", s, value)
        ELSE st

seekSet(st, s, value) ==
    LET snd == st.sounds[s]
        clamped == Min(Max(0, value), snd.duration)
    IN  IF snd.startTime > 0 THEN st
        ELSE IF snd.isPlaying
        THEN SoundEmitValue([st EXCEPT !.sounds[s].previousTime = clamped,
                                       !.tags[snd.audio].currentTime = TagTime(st, snd.audio, clamped)],
                            "SEEK", s, clamped)
        ELSE IF snd.isPaused
        THEN SoundEmitValue([st EXCEPT !.sounds[s].currentConfig.seek = clamped],
                            "SEEK", s, clamped)
        ELSE st

\* No method of a sound was the last thing to happen.
NoSoundCall ==
    [op |-> "none", s |-> 0, arg |-> 0, ret |-> FALSE, threw |-> FALSE, events |-> << >>,
     pre |-> [sounds |-> << >>, tags |-> << >>]]

\* The call of a method: its effect on the sounds and the tags, and its record.
SoundCalled(op, s, arg, st) ==
    /\ sounds' = st.sounds
    /\ tags' = st.tags
    /\ soundLast' = [op |-> op, s |-> s, arg |-> arg, ret |-> st.ret, threw |-> st.threw,
                     events |-> st.events, pre |-> [sounds |-> sounds, tags |-> tags]]
    /\ UNCHANGED manager

\* One sound and the one tag of its key, three seconds long.
InitSound ==
    /\ sounds = <<NewSound(3)>>
    /\ tags = <<NewTag(3)>>
    /\ manager = [override |-> FALSE, now |-> 0]
    /\ soundLast = NoSoundCall

\* Three sounds of one key share its two tags.
InitPool ==
    /\ sounds = <<NewSound(3), NewSound(3), NewSound(3)>>
    /\ tags = <<NewTag(3), NewTag(3)>>
    /\ manager \in {[override |-> o, now |-> 0] : o \in BOOLEAN}
    /\ soundLast = NoSoundCall

Play ==
    \E s \in DOMAIN sounds, markerName \in {"", "m", "bad"},
       seek \in 0..MaxSeek, delay \in 0..MaxDelay, loop \in BOOLEAN :
        LET config == [seek |-> seek, delay |-> delay, loop |-> loop]
        IN  SoundCalled("play", s, [markerName |-> markerName, config |-> config],
                        play(Calling, s, markerName, config))

Pause ==
    \E s \in DOMAIN sounds : SoundCalled("pause", s, 0, pause(Calling, s))

Resume ==
    \E s \in DOMAIN sounds : SoundCalled("resume", s, 0, resume(Calling, s))

Stop ==
    \E s \in DOMAIN sounds : SoundCalled("stop", s, 0, stop(Calling, s))

SetSeek ==
    \E s \in DOMAIN sounds, value \in -1..MaxSeek :
        SoundCalled("seek", s, value, seekSet(Calling, s, value))

\* The manager's update calls the sound's update with the time of the step.
UpdateSound ==
    \E s \in DOMAIN sounds :
        SoundCalled("update", s, manager.now, soundUpdate(Calling, s, manager.now))

\* A second passes on the clock.
Tick ==
    /\ manager.now < MaxNow * 1000
    /\ manager' = [manager EXCEPT !.now = @ + 1000]
    /\ soundLast' = NoSoundCall
    /\ UNCHANGED <<sounds, tags>>

\* The browser plays a second of a tag that is not paused.
AudioAdvance ==
    \E t \in DOMAIN tags :
        /\ ~tags[t].paused
        /\ tags[t].currentTime < tags[t].duration
        /\ tags' = [tags EXCEPT ![t].currentTime = @ + 1]
        /\ soundLast' = NoSoundCall
        /\ UNCHANGED <<sounds, manager>>

\* The pool: play with no delay and no seek, from the start of a section.
PoolPlay ==
    \E s \in DOMAIN sounds, markerName \in {"", "m"}, loop \in BOOLEAN :
        LET config == [seek |-> 0, delay |-> 0, loop |-> loop]
        IN  SoundCalled("play", s, [markerName |-> markerName, config |-> config],
                        play(Calling, s, markerName, config))

----
(* The sound manager: BaseSoundManager.update, remove and the destruction  *)
(* of sounds. Here a sound is its identity, its pendingRemove flag and     *)
(* what the listeners of its update do to the manager (nothing, remove a   *)
(* sound, destroy a sound); the manager holds locked and unlocked.         *)

NoHandler == [do |-> "none", target |-> 0]

\* manager.add: a new sound, pushed to sounds.
ManagedSound(id) == [id |-> id, pendingRemove |-> FALSE, onUpdate |-> NoHandler]

\* sounds.indexOf(sound), from 1; 0 is -1.
IndexOf(snds, id) ==
    IF \E i \in DOMAIN snds : snds[i].id = id
    THEN CHOOSE i \in DOMAIN snds : snds[i].id = id /\ \A j \in 1..(i - 1) : snds[j].id # id
    ELSE 0

\* sounds.splice(index, 1)
Splice(snds, index) ==
    [i \in 1..(Len(snds) - 1) |-> IF i < index THEN snds[i] ELSE snds[i + 1]]

\* sound.destroy(): the sound is marked pendingRemove and stays in sounds.
soundDestroy(snds, id) ==
    [i \in DOMAIN snds |-> IF snds[i].id = id THEN [snds[i] EXCEPT !.pendingRemove = TRUE]
                           ELSE snds[i]]

\* remove(sound)
managerRemove(snds, id) ==
    LET index == IndexOf(snds, id)
    IN  IF index # 0 THEN Splice(soundDestroy(snds, id), index) ELSE snds

\* The first loop of update: from the last index down, a sound that is
\* pendingRemove is spliced out.
RECURSIVE PurgePending(_, _)
PurgePending(snds, i) ==
    IF i = 0 THEN snds
    ELSE PurgePending(IF snds[i].pendingRemove THEN Splice(snds, i) ELSE snds, i - 1)

\* What the listeners of a sound's update do.
Handle(snds, h) ==
    IF h.do = "remove" THEN managerRemove(snds, h.target)
    ELSE IF h.do = "destroy" THEN soundDestroy(snds, h.target)
    ELSE snds

\* sounds.forEach(sound.update): the indices below the length the array had
\* at the start are visited in order, each on the array as it is by then;
\* an index the array no longer has is passed over.
RECURSIVE forEachUpdate(_, _, _, _)
forEachUpdate(k, len, snds, called) ==
    IF k > len THEN [sounds |-> snds, called |-> called]
    ELSE IF k > Len(snds) THEN forEachUpdate(k + 1, len, snds, called)
    ELSE forEachUpdate(k + 1, len, Handle(snds, snds[k].onUpdate),
                       Append(called, snds[k].id))

\* update(time, delta)
managerUpdate(mgr, snds) ==
    LET purged == PurgePending(snds, Len(snds))
        pass == forEachUpdate(1, Len(purged), purged, << >>)
    IN  [manager |-> IF mgr.unlocked THEN [locked |-> FALSE, unlocked |-> FALSE] ELSE mgr,
         events |-> IF mgr.unlocked THEN << "unlocked" >> ELSE << >>,
         sounds |-> pass.sounds,
         called |-> pass.called]

\* A manager with no sounds, locked or not as its device has it.
InitManager ==
    /\ sounds = << >>
    /\ tags = << >>
    /\ manager \in {[locked |-> l, unlocked |-> FALSE] : l \in BOOLEAN}
    /\ soundLast = NoSoundCall

\* manager.add(key): at most three sounds, named 1..3.
AddSound ==
    \E id \in 1..3 :
        /\ IndexOf(sounds, id) = 0
        /\ sounds' = Append(sounds, ManagedSound(id))
        /\ soundLast' = NoSoundCall
        /\ UNCHANGED <<tags, manager>>

\* A listener is put on the update of a sound: it removes or destroys a sound.
SetHandler ==
    \E i \in DOMAIN sounds, do \in {"none", "remove", "destroy"}, target \in 1..3 :
        /\ do = "none" => target = 1
        /\ sounds' = [sounds EXCEPT ![i].onUpdate =
                          IF do = "none" THEN NoHandler ELSE [do |-> do, target |-> target]]
        /\ soundLast' = NoSoundCall
        /\ UNCHANGED <<tags, manager>>

RemoveSound ==
    \E id \in 1..3 :
        /\ sounds' = managerRemove(sounds, id)
        /\ soundLast' = NoSoundCall
        /\ UNCHANGED <<tags, manager>>

DestroySound ==
    \E i \in DOMAIN sounds :
        /\ sounds' = soundDestroy(sounds, sounds[i].id)
        /\ soundLast' = NoSoundCall
        /\ UNCHANGED <<tags, manager>>

\* The first touch unlocks the manager; the next update tells.
Unlock ==
    /\ manager.locked
    /\ manager' = [manager EXCEPT !.unlocked = TRUE]
    /\ soundLast' = NoSoundCall
    /\ UNCHANGED <<sounds, tags>>

ManagerUpdate ==
    LET done == managerUpdate(manager, sounds)
    IN  /\ sounds' = done.sounds
        /\ manager' = done.manager
        /\ soundLast' = [op |-> "managerUpdate", called |-> done.called,
                         events |-> done.events, pre |-> [sounds |-> sounds, tags |-> tags]]
        /\ UNCHANGED tags

----
(* The specifications *)

\* The other subsystems of a specification stay as constructed.
RestTile ==
    /\ body = [position |-> [x |-> 0, y |-> 0], velocity |-> [x |-> 0, y |-> 1],
               bounce |-> [x |-> 0, y |-> 0], blocked |-> NoFaces, width |-> 2,
               immovable |-> FALSE]
    /\ tileLast = [op |-> "none", x |-> 0, tile |-> CHOOSE t \in Tiles : TRUE, pre |-> body]

RestOverlap ==
    /\ body1 = NewBody(0, 0)
    /\ body2 = NewBody(2, 2)
    /\ collisionInfo = CollisionInfoUpdate(body1, body2)
    /\ overlapLast = [op |-> "none", ret |-> FALSE, pre1 |-> body1, pre2 |-> body2]

RestSound ==
    /\ sounds = << >>
    /\ tags = << >>
    /\ manager = [override |-> FALSE, now |-> 0]
    /\ soundLast = NoSoundCall

RestPC ==
    /\ pc = NewPointerConstraint
    /\ pointers = << >>
    /\ world = << >>
    /\ emitted = << >>
    /\ pcLast = NotAHandler

InitTileSpec == InitTile /\ RestOverlap /\ InitGame /\ RestPC /\ RestSound

InitOverlapSpec == RestTile /\ InitOverlap /\ InitGame /\ RestPC /\ RestSound

InitGameSpec == RestTile /\ RestOverlap /\ InitGame /\ RestPC /\ RestSound

InitPCSpec == RestTile /\ RestOverlap /\ InitGame /\ InitPC /\ RestSound

NextTile ==
    /\ \/ SeparateX
       \/ CheckTileX
    /\ UNCHANGED <<overlapVars, gameVars, pcVars, soundVars>>

NextOverlap ==
    /\ \/ MoveBody1
       \/ ResetFlags
       \/ DoCheckOverlapY
    /\ UNCHANGED <<tileVars, gameVars, pcVars, soundVars>>

NextGame ==
    /\ \/ Boot
       \/ EmitReady
       \/ Step
       \/ Visibility
       \/ SetOnStepCallback
    /\ UNCHANGED <<tileVars, overlapVars, pcVars, soundVars>>

NextPC ==
    /\ \/ PointerDown
       \/ PointerUp
       \/ PointerMove
       \/ Update
       \/ StopDrag
       \/ SetActive
    /\ UNCHANGED <<tileVars, overlapVars, gameVars, soundVars>>

InitSoundSpec == RestTile /\ RestOverlap /\ InitGame /\ RestPC /\ InitSound

InitPoolSpec == RestTile /\ RestOverlap /\ InitGame /\ RestPC /\ InitPool

NextSound ==
    /\ \/ Play
       \/ Pause
       \/ Resume
       \/ Stop
       \/ SetSeek
       \/ UpdateSound
       \/ Tick
       \/ AudioAdvance
    /\ UNCHANGED <<tileVars, overlapVars, gameVars, pcVars>>

InitManagerSpec == RestTile /\ RestOverlap /\ InitGame /\ RestPC /\ InitManager

NextManager ==
    /\ \/ AddSound
       \/ SetHandler
       \/ RemoveSound
       \/ DestroySound
       \/ Unlock
       \/ ManagerUpdate
    /\ UNCHANGED <<tileVars, overlapVars, gameVars, pcVars>>

NextPool ==
    /\ \/ PoolPlay
       \/ Stop
       \/ AudioAdvance
    /\ UNCHANGED <<tileVars, overlapVars, gameVars, pcVars>>

SpecTile == InitTileSpec /\ [][NextTile]_vars

SpecOverlap == InitOverlapSpec /\ [][NextOverlap]_vars

SpecGame == InitGameSpec /\ [][NextGame]_vars

SpecPC == InitPCSpec /\ [][NextPC]_vars

SpecSound == InitSoundSpec /\ [][NextSound]_vars

SpecPool == InitPoolSpec /\ [][NextPool]_vars

SpecManager == InitManagerSpec /\ [][NextManager]_vars

----
(* Properties of the tile separation on X (SpecTile) *)

Separated == tileLast.op = "ProcessTileSeparationX"

Abs(n) == IF n < 0 THEN -n ELSE n

\* C1: ProcessTileSeparationX(body, x) sets blocked.left when x < 0 and
\* blocked.right when x > 0; it sets neither the opposite flag nor an up or
\* down flag, and a flag that was true stays true.
C1_BlockedBySign ==
    Separated =>
        LET pre == tileLast.pre
            x == tileLast.x
        IN  /\ (x < 0 => body.blocked.left)
            /\ (x > 0 => body.blocked.right)
            /\ (x <= 0 => body.blocked.right = pre.blocked.right)
            /\ (x >= 0 => body.blocked.left = pre.blocked.left)
            /\ body.blocked.up = pre.blocked.up
            /\ body.blocked.down = pre.blocked.down
            /\ \A f \in {"up", "down", "left", "right"} : pre.blocked[f] => body.blocked[f]

C1_Witness ==
    /\ Separated
    /\ tileLast.x < 0
    /\ ~tileLast.pre.blocked.left
    /\ tileLast.pre.blocked.right
    /\ ~tileLast.pre.blocked.up
    /\ body.blocked.left
    /\ body.blocked.right

\* C2: after ProcessTileSeparationX(body, x) position.x is its previous
\* value minus x, for x of either sign, and position.y is unchanged.
C2_PositionMinusOverlap ==
    Separated =>
        /\ body.position.x = tileLast.pre.position.x - tileLast.x
        /\ body.position.y = tileLast.pre.position.y

C2_Witness ==
    /\ Separated
    /\ tileLast.x = -MaxSep
    /\ body.position.x = tileLast.pre.position.x + MaxSep

\* C3: tile separation on X stops the x velocity when bounce.x is 0 and
\* otherwise sets it to -(old velocity.x) * bounce.x, so that bounce.x = 1
\* keeps its magnitude and flips its sign; velocity.y is unchanged.
C3_BounceRule ==
    Separated =>
        LET pre == tileLast.pre
        IN  /\ (pre.bounce.x = 0 => body.velocity.x = 0)
            /\ (pre.bounce.x # 0 => body.velocity.x = (-pre.velocity.x) * pre.bounce.x)
            /\ (pre.bounce.x = 1 =>
                    /\ Abs(body.velocity.x) = Abs(pre.velocity.x)
                    /\ body.velocity.x + pre.velocity.x = 0)
            /\ body.velocity.y = pre.velocity.y

C3_Witness ==
    /\ Separated
    /\ tileLast.x > 0
    /\ tileLast.pre.bounce.x = 1
    /\ tileLast.pre.velocity.x = 1
    /\ body.velocity.x = -1

\* C4: ProcessTileSeparationX(body, 0) changes neither the blocked flags nor
\* the position nor the velocity of the body.
C4_ZeroOverlapNoOp ==
    (Separated /\ tileLast.x = 0) =>
        /\ body.blocked = tileLast.pre.blocked
        /\ body.position = tileLast.pre.position
        /\ body.velocity = tileLast.pre.velocity

\* C5: ProcessTileSeparationX leaves the velocity of an immovable body
\* unchanged, for every x and every bounce.
C5_ImmovableVelocityKept ==
    (Separated /\ tileLast.pre.immovable) => body.velocity = tileLast.pre.velocity

MovingRightInto(b, t) ==
    /\ b.velocity.x > 0
    /\ b.position.x < t.right
    /\ b.position.x + b.width > t.left

\* C8: a body moving right into a tile whose collideLeft is false keeps its
\* position.x, velocity.x and blocked.right; when collideLeft is true it is
\* moved out of the tile and blocked.right is true.
C8_TileFaceGating ==
    (tileLast.op = "TileCheckX" /\ MovingRightInto(tileLast.pre, tileLast.tile)) =>
        LET pre == tileLast.pre
            t == tileLast.tile
        IN  IF t.collideLeft
            THEN /\ body.position.x + body.width = t.left
                 /\ body.blocked.right
            ELSE /\ body.position.x = pre.position.x
                 /\ body.velocity.x = pre.velocity.x
                 /\ body.blocked.right = pre.blocked.right

C8_Witness ==
    /\ tileLast.op = "TileCheckX"
    /\ MovingRightInto(tileLast.pre, tileLast.tile)
    /\ tileLast.tile.collideLeft
    /\ ~tileLast.pre.blocked.right
    /\ body.blocked.right
    /\ body.position.x < tileLast.pre.position.x

----
(* Properties of the vertical overlap check (SpecOverlap) *)

Checked == overlapLast.op = "CheckOverlapY"

UpFlags(b) == <<b.touching.up, b.blocked.up>>

DownFlags(b) == <<b.touching.down, b.blocked.down>>

\* C6: CheckOverlapY flags the two bodies as an opposite face pair: with the
\* refreshed face FACING_UP body1 is touching and blocked up and body2 down,
\* with FACING_DOWN body1 down and body2 up; the call gives neither body the
\* face it gives the other.
C6_OppositeFacePair ==
    Checked =>
        /\ (collisionInfo.face = FACING_UP =>
                /\ UpFlags(body1) = <<TRUE, TRUE>>
                /\ DownFlags(body2) = <<TRUE, TRUE>>
                /\ DownFlags(body1) = DownFlags(overlapLast.pre1)
                /\ UpFlags(body2) = UpFlags(overlapLast.pre2))
        /\ (collisionInfo.face = FACING_DOWN =>
                /\ DownFlags(body1) = <<TRUE, TRUE>>
                /\ UpFlags(body2) = <<TRUE, TRUE>>
                /\ UpFlags(body1) = UpFlags(overlapLast.pre1)
                /\ DownFlags(body2) = DownFlags(overlapLast.pre2))

C6_Witness ==
    /\ Checked
    /\ collisionInfo.face = FACING_UP
    /\ overlapLast.pre1.touching = NoTouch
    /\ overlapLast.pre2.blocked = NoFaces
    /\ UpFlags(body1) = <<TRUE, TRUE>>
    /\ DownFlags(body2) = <<TRUE, TRUE>>
    /\ UpFlags(body2) = <<FALSE, FALSE>>

\* The two boxes are apart on some axis.
Apart(a, b) ==
    \/ a.x + a.width < b.x
    \/ b.x + b.width < a.x
    \/ a.y + a.height < b.y
    \/ b.y + b.height < a.y

\* C7: when the two bodies do not intersect CheckOverlapY returns false and
\* changes no touching or blocked flag of either body.
C7_NoIntersectionNoMutation ==
    (Checked /\ Apart(overlapLast.pre1, overlapLast.pre2)) =>
        /\ overlapLast.ret = FALSE
        /\ body1.touching = overlapLast.pre1.touching
        /\ body1.blocked = overlapLast.pre1.blocked
        /\ body2.touching = overlapLast.pre2.touching
        /\ body2.blocked = overlapLast.pre2.blocked

C7_Witness ==
    /\ Checked
    /\ Apart(body1, body2)
    /\ body1.y > body2.y + body2.height
    /\ overlapLast.ret = FALSE
    /\ body1.touching = NoTouch
    /\ ~collisionInfo.intersects

----
(* Properties of Game.step (SpecGame) *)

\* The positions of a call in the frame's calls.
At(name) == {i \in DOMAIN calls : calls[i] = name}

Once(name) == Cardinality(At(name)) = 1

Before(a, b) == \A i \in At(a), j \in At(b) : i < j

FrameTime == [input |-> game.time, sound |-> game.time,
              callback |-> game.time, scene |-> game.time]

\* C9: in every frame input.update, sound.update, onStepCallback and
\* scene.update run in that order before renderer.preRender; scene.render
\* runs after the 'prerender' event and before renderer.postRender and the
\* 'postrender' event; the renderer and scene.render see all four updates of
\* the frame done.
C9_UpdateBeforeRender ==
    game.time > 0 =>
        /\ \A name \in {"input.update", "sound.update", "onStepCallback", "scene.update",
                         "renderer.preRender", "prerender", "scene.render",
                         "renderer.postRender", "postrender"} : Once(name)
        /\ Before("input.update", "sound.update")
        /\ Before("sound.update", "onStepCallback")
        /\ Before("onStepCallback", "scene.update")
        /\ Before("scene.update", "renderer.preRender")
        /\ Before("renderer.preRender", "prerender")
        /\ Before("prerender", "scene.render")
        /\ Before("scene.render", "renderer.postRender")
        /\ Before("scene.render", "postrender")
        /\ game.preRenderSaw = FrameTime
        /\ game.renderSaw = FrameTime

C9_Witness ==
    /\ game.time = 2
    /\ game.onStepCallback = "custom"
    /\ gameLast = "step"
    /\ Len(calls) = 9
    /\ game.renderSaw.scene = 2

\* start has run exactly as often as the loop was started and the
\* visibility handlers were registered: once if the game runs, else never.
StartedOnce ==
    /\ game.isRunning => game.isBooted
    /\ game.loop.callbacks = (IF game.isRunning THEN 1 ELSE 0)
    /\ game.handlers = (IF game.isRunning THEN 1 ELSE 0)

\* The step in which the game begins to run is the emission of 'ready' in a
\* booted game.
StartsOnReady ==
    (~game.isRunning /\ game'.isRunning) => (game.isBooted /\ gameLast' = "ready")

\* C22: start runs only once boot has run and 'ready' was emitted after it,
\* and at most once however many 'ready' events there are: a running game is
\* booted, the loop was given the step callback exactly once, and the
\* hidden / visible / blur / focus handlers are registered exactly once, and
\* only in a running game.
C22_StartOnceAfterBoot == [](StartedOnce) /\ [][StartsOnReady]_vars

\* 'ready' was emitted more than once and the game was started once.
C22_Witness ==
    /\ game.isRunning
    /\ game.readyEmitted >= 2
    /\ game.loop.callbacks = 1
    /\ game.handlers = 1

----
(* Properties of the Pointer Constraint (SpecPC) *)

\* The body whose drag is open after the events of a log (0 if none), or -1
\* if the log is out of order: a DRAG_START while a drag is open, a DRAG or
\* a DRAG_END without an open drag of that body.
RECURSIVE OpenDrag(_)
OpenDrag(log) ==
    IF log = << >> THEN 0
    ELSE LET open == OpenDrag(SubSeq(log, 1, Len(log) - 1))
             e == log[Len(log)]
         IN  IF open = -1 \/ e.body = 0 THEN -1
             ELSE IF e.type = "DRAG_START" THEN (IF open = 0 THEN e.body ELSE -1)
             ELSE IF e.type = "DRAG" THEN (IF open = e.body THEN open ELSE -1)
             ELSE IF e.type = "DRAG_END" THEN (IF open = e.body THEN 0 ELSE -1)
             ELSE -1

\* C10: the drag events are well ordered: a DRAG_START opens the drag of a
\* body, DRAG events of that body occur only while it is open, one DRAG_END
\* of that body closes it, for every interleaving of onDown, update and
\* stopDrag.
C10_DragEventsWellOrdered ==
    /\ OpenDrag(emitted) # -1
    /\ OpenDrag(emitted) = pc.body

C10_Witness ==
    /\ Len(emitted) = 4
    /\ emitted[1].type = "DRAG_START"
    /\ emitted[2].type = "DRAG"
    /\ emitted[3].type = "DRAG_END"
    /\ emitted[4].type = "DRAG_START"
    /\ emitted[4].body # emitted[1].body

\* No event was emitted by the last handler call.
NothingEmitted == Len(emitted) = pcLast.n

\* The last handler call emitted the one event e.
EmittedOnly(e) == Len(emitted) = pcLast.n + 1 /\ emitted[Len(emitted)] = e

\* C11: while the constraint has an active pointer, onDown for any pointer
\* runs no hit test, emits nothing and leaves pointer, camera, body, part and
\* constraint.bodyB (and every other field) unchanged.
C11_OneDragAtATime ==
    (pcLast.op = "onDown" /\ pcLast.pre.pointer # 0) =>
        /\ NothingEmitted
        /\ pc = pcLast.pre

C11_Witness ==
    /\ pcLast.op = "onDown"
    /\ pcLast.pre.pointer # 0
    /\ pcLast.pointer.id # pcLast.pre.pointer
    /\ pc.position # getWorldPoint(pcLast.pointer.camera, pcLast.pointer.x)
    /\ pc.body # 0

\* C12: while active is false update emits nothing and changes none of
\* pointer, body, part, position and the constraint's points, whether the
\* pointer is down or not.
C12_InactiveUpdateSkipped ==
    (pcLast.op = "update" /\ ~pcLast.pre.active) =>
        /\ NothingEmitted
        /\ pc = pcLast.pre

C12_Witness ==
    /\ pcLast.op = "update"
    /\ ~pcLast.pre.active
    /\ pc.body # 0
    /\ pc.pointer # 0
    /\ ~pointers[pc.pointer].isDown

\* C13: while active is false a pointer press does not begin a drag: no
\* DRAG_START is emitted and body, pointer and constraint.bodyB stay null.
C13_InactiveNoDragStart ==
    (pcLast.op = "onDown" /\ ~pcLast.pre.active /\ pcLast.pre.pointer = 0) =>
        /\ NothingEmitted
        /\ pc.body = 0
        /\ pc.pointer = 0
        /\ pc.constraint.bodyB = 0

\* C14: stopDrag called while a body is dragged emits one DRAG_END with that
\* body and leaves pointer, body, part and constraint.bodyB null; called
\* when no body is dragged it emits nothing and changes nothing.
C14_StopDragReleases ==
    pcLast.op = "stopDrag" =>
        IF pcLast.pre.body # 0
        THEN /\ EmittedOnly([type |-> "DRAG_END", body |-> pcLast.pre.body])
             /\ pc.pointer = 0
             /\ pc.body = 0
             /\ pc.part = 0
             /\ pc.constraint.bodyB = 0
        ELSE /\ NothingEmitted
             /\ pc = pcLast.pre

C14_Witness ==
    /\ pcLast.op = "stopDrag"
    /\ pcLast.pre.body # 0
    /\ pcLast.pre.constraint.bodyB # 0
    /\ pc.body = 0
    /\ emitted[Len(emitted)].type = "DRAG_END"

\* The parts of body b that count for a hit: all but part 0 of a compound body.
HitParts(b) ==
    {k \in DOMAIN world[b].parts : Len(world[b].parts) > 1 => k > 1}

\* Body b can be picked at the position.
Hittable(b, position) ==
    /\ ~world[b].ignorePointer
    /\ position >= world[b].bounds.min
    /\ position <= world[b].bounds.max
    /\ canCollide(world[b].collisionFilter, pcLast.pre.constraint.collisionFilter)
    /\ \E k \in HitParts(b) :
          position >= world[b].parts[k].min /\ position <= world[b].parts[k].max

\* C15: getBody, run by onDown when no pointer is active, binds the
\* lowest-index body that can be picked at the pointer's world position; it
\* returns true (the pointer becomes the active one) and emits DRAG_START
\* exactly when there is such a body, and otherwise binds nothing.
C15_FirstBodyHit ==
    (pcLast.op = "onDown" /\ pcLast.pre.pointer = 0) =>
        LET position == pcLast.pointer.x + CameraScroll[pcLast.pointer.camera]
            hits == {b \in DOMAIN world : Hittable(b, position)}
        IN  IF hits # {}
            THEN LET first == CHOOSE b \in hits : \A c \in hits : b <= c
                 IN  /\ pc.body = first
                     /\ pc.constraint.bodyB = first
                     /\ pc.part \in HitParts(first)
                     /\ pc.pointer = pcLast.pointer.id
                     /\ EmittedOnly([type |-> "DRAG_START", body |-> first])
            ELSE /\ NothingEmitted
                 /\ pc.pointer = 0
                 /\ pc.body = pcLast.pre.body
                 /\ pc.part = pcLast.pre.part
                 /\ pc.constraint = pcLast.pre.constraint

C15_Witness ==
    /\ pcLast.op = "onDown"
    /\ pcLast.pre.pointer = 0
    /\ pc.body = 2
    /\ Len(world[1].parts) > 1
    /\ pc.position >= world[1].bounds.min
    /\ pc.position <= world[1].bounds.max
    /\ emitted[Len(emitted)] = [type |-> "DRAG_START", body |-> 2]

----
(* Properties of HTML5AudioSound and its tags (SpecSound, SpecPool) *)

\* The sounds and the tags before the last call.
SoundsBefore == [sounds |-> soundLast.pre.sounds, tags |-> soundLast.pre.tags]

AllTagsUsed(tg) == \A i \in DOMAIN tg : tg[i].used

EmitsOnly(event) == soundLast.events = << <<event, soundLast.s>> >>

EmitsNothing == soundLast.events = << >>

\* What play does when no tag can be had.
PlayRefused ==
    /\ ~soundLast.ret
    /\ EmitsNothing
    /\ tags = SoundsBefore.tags
    /\ ~sounds[soundLast.s].isPlaying
    /\ sounds[soundLast.s].audio = 0

\* play is true exactly when it emits PLAY, and then the sound holds a tag.
PlayTrueWithTag ==
    /\ soundLast.ret <=> EmitsOnly("PLAY")
    /\ soundLast.ret \/ EmitsNothing
    /\ soundLast.ret => /\ sounds[soundLast.s].audio # 0
                        /\ tags[sounds[soundLast.s].audio].used

\* C16, as stated: play returns true and emits PLAY only when a tag was
\* assigned to the sound; whenever every tag of the key is in use and
\* override is false, play returns false, emits no PLAY, takes no tag and
\* leaves the sound not playing with audio null.
C16_PlayNeedsTag ==
    soundLast.op = "play" =>
        /\ PlayTrueWithTag
        /\ (AllTagsUsed(SoundsBefore.tags) /\ ~manager.override) => PlayRefused

\* C16, amended: the same, the refusal being that of a sound that holds no
\* tag itself; a sound that already holds a tag plays again on that tag.
C16_PlayNeedsFreeTag ==
    soundLast.op = "play" =>
        /\ PlayTrueWithTag
        /\ ( /\ SoundsBefore.sounds[soundLast.s].audio = 0
             /\ AllTagsUsed(SoundsBefore.tags)
             /\ ~manager.override ) => PlayRefused

C16_Witness ==
    /\ soundLast.op = "play"
    /\ SoundsBefore.sounds[soundLast.s].audio = 0
    /\ AllTagsUsed(SoundsBefore.tags)
    /\ ~manager.override
    /\ ~soundLast.ret
    /\ \E o \in DOMAIN sounds : o # soundLast.s /\ sounds[o].isPlaying

\* The last call was play on a sound that held no tag (pickAudioTag had to
\* find one).
PickedFor(s) ==
    /\ soundLast.op = "play"
    /\ soundLast.s = s
    /\ SoundsBefore.sounds[s].audio = 0

UnusedBefore == {i \in DOMAIN SoundsBefore.tags : ~SoundsBefore.tags[i].used}

\* The other sounds that held a tag before the call.
HoldersBefore(s) ==
    {o \in DOMAIN sounds : o # s /\ SoundsBefore.sounds[o].audio # 0}

OthersUntouched(s, except) ==
    \A o \in DOMAIN sounds : (o # s /\ o \notin except) => sounds[o] = SoundsBefore.sounds[o]

LoopBefore(o) == SoundsBefore.sounds[o].currentConfig.loop

\* seek / duration of a before the call is at least that of b.
ProgressAtLeast(a, b) ==
    seekGet(SoundsBefore, a) * SoundsBefore.sounds[b].duration
        >= seekGet(SoundsBefore, b) * SoundsBefore.sounds[a].duration

\* v lost its tag to s: it is stopped and holds nothing.
Hijacked(v, s) ==
    /\ sounds[s].audio = SoundsBefore.sounds[v].audio
    /\ ~sounds[v].isPlaying
    /\ ~sounds[v].isPaused
    /\ sounds[v].audio = 0
    /\ sounds[v].startTime = 0
    /\ sounds[v].previousTime = 0

\* C17: pickAudioTag takes an unused tag first; only when none is unused and
\* override is true does it take the tag of another sound of the key that
\* holds one, a non-looping sound before a looping one and, among sounds of
\* the same loop setting, one of the largest seek / duration; the victim is
\* stopped with audio null, startTime 0 and previousTime 0, and the picking
\* sound holds its tag.
C17_PickOrder ==
    \A s \in DOMAIN sounds : PickedFor(s) =>
        IF UnusedBefore # {}
        THEN /\ sounds[s].audio \in UnusedBefore
             /\ tags[sounds[s].audio].used
             /\ OthersUntouched(s, {})
        ELSE IF ~manager.override
        THEN /\ sounds[s].audio = 0
             /\ OthersUntouched(s, {})
        ELSE \E v \in HoldersBefore(s) :
                /\ Hijacked(v, s)
                /\ OthersUntouched(s, {v})
                /\ \A o \in HoldersBefore(s) :
                        /\ LoopBefore(v) => LoopBefore(o)
                        /\ LoopBefore(o) = LoopBefore(v) => ProgressAtLeast(v, o)

\* A tag was taken from the sound further on, of two with the same loop setting.
C17_Witness ==
    /\ soundLast.op = "play"
    /\ \E s \in DOMAIN sounds : \E v, o \in HoldersBefore(s) :
        /\ PickedFor(s)
        /\ UnusedBefore = {}
        /\ manager.override
        /\ Hijacked(v, s)
        /\ v > o
        /\ LoopBefore(o) = LoopBefore(v)
        /\ ~ProgressAtLeast(o, v)
        /\ sounds[o] = SoundsBefore.sounds[o]

\* A tag was taken from the non-looping sound although the looping one was further on.
C17_WitnessLoop ==
    /\ soundLast.op = "play"
    /\ \E s \in DOMAIN sounds : \E v, o \in HoldersBefore(s) :
        /\ PickedFor(s)
        /\ UnusedBefore = {}
        /\ manager.override
        /\ Hijacked(v, s)
        /\ ~LoopBefore(v)
        /\ LoopBefore(o)
        /\ ~ProgressAtLeast(v, o)

\* The sound of the last call, as it was before the call.
SoundBefore == SoundsBefore.sounds[soundLast.s]

\* The value of the last seek, clamped to 0..duration.
SeekClamped == Min(Max(0, soundLast.arg), SoundBefore.duration)

SeekIgnored ==
    /\ EmitsNothing
    /\ sounds = SoundsBefore.sounds
    /\ tags = SoundsBefore.tags

SeekEmitted == soundLast.events = << <<"SEEK", soundLast.s, SeekClamped>> >>

\* C18, as stated: setting seek on a playing or paused sound clamps the value
\* to 0..duration and emits SEEK with the clamped value; on a stopped sound
\* it has no effect and emits nothing.
C18_SeekClampsAndEmits ==
    soundLast.op = "seek" =>
        IF SoundBefore.isPlaying \/ SoundBefore.isPaused
        THEN SeekEmitted
        ELSE SeekIgnored

\* C18, amended: the same, but a sound that still waits for its delayed
\* start (startTime > 0) ignores the value like a stopped sound does.
C18_SeekClampsUnlessDelayed ==
    soundLast.op = "seek" =>
        IF (SoundBefore.isPlaying \/ SoundBefore.isPaused) /\ SoundBefore.startTime = 0
        THEN /\ SeekEmitted
             /\ SoundBefore.isPaused => sounds[soundLast.s].currentConfig.seek = SeekClamped
        ELSE SeekIgnored

C18_Witness ==
    /\ soundLast.op = "seek"
    /\ SoundBefore.isPlaying
    /\ SoundBefore.startTime = 0
    /\ soundLast.arg > SoundBefore.duration
    /\ SeekEmitted

\* A sound waiting for its delayed start was given a seek.
C18_WitnessDelayed ==
    /\ soundLast.op = "seek"
    /\ SoundBefore.isPlaying
    /\ SoundBefore.startTime > 0
    /\ soundLast.arg \in 1..SoundBefore.duration
    /\ SeekIgnored

\* C19: reading seek right after setting it to v on a playing sound gives v
\* clamped to 0..duration, whatever the current marker. (Stated for a sound
\* whose playback has started, startTime = 0, where the setter acts.)
C19_SeekRoundTrip ==
    (soundLast.op = "seek" /\ SoundBefore.isPlaying /\ SoundBefore.startTime = 0) =>
        seekGet([sounds |-> sounds, tags |-> tags], soundLast.s) = SeekClamped

\* The tag of the sound of the last call, before the call, was at or beyond
\* the end of the section played.
AtEndBefore ==
    /\ SoundBefore.isPlaying
    /\ ~SoundBefore.currentConfig.loop
    /\ SoundsBefore.tags[SoundBefore.audio].currentTime
           >= MarkerStart(SoundBefore) + SoundBefore.duration

\* The sound is stopped, its tag is paused and released, COMPLETE is emitted once.
Completed ==
    /\ ~sounds[soundLast.s].isPlaying
    /\ ~sounds[soundLast.s].isPaused
    /\ sounds[soundLast.s].audio = 0
    /\ sounds[soundLast.s].startTime = 0
    /\ sounds[soundLast.s].previousTime = 0
    /\ tags[SoundBefore.audio].paused
    /\ ~tags[SoundBefore.audio].used
    /\ EmitsOnly("COMPLETE")

UpdateIdle ==
    /\ EmitsNothing
    /\ sounds = SoundsBefore.sounds
    /\ tags = SoundsBefore.tags

NoComplete == \A i \in DOMAIN soundLast.events : soundLast.events[i][1] # "COMPLETE"

\* C20, as stated: the update that finds the tag of a playing, non-looping
\* sound at or beyond marker start + duration stops the sound, pauses and
\* releases the tag and emits COMPLETE once; an update of a sound that is not
\* playing does nothing, and no other update emits COMPLETE.
C20_CompleteOnce ==
    soundLast.op = "update" =>
        IF AtEndBefore THEN Completed
        ELSE IF ~SoundBefore.isPlaying THEN UpdateIdle
        ELSE NoComplete

\* C20, amended: the same for a sound whose playback has started; while the
\* sound waits for its delayed start (startTime > 0) the update does not
\* complete it, whatever the tag's currentTime.
C20_CompleteOnceStarted ==
    soundLast.op = "update" =>
        IF AtEndBefore /\ SoundBefore.startTime = 0 THEN Completed
        ELSE IF ~SoundBefore.isPlaying THEN UpdateIdle
        ELSE NoComplete

\* A sound played on a marker ran to the marker's end and was completed.
C20_Witness ==
    /\ soundLast.op = "update"
    /\ AtEndBefore
    /\ SoundBefore.startTime = 0
    /\ SoundBefore.currentMarker = "m"
    /\ SoundBefore.previousTime < MarkerStart(SoundBefore) + SoundBefore.duration
    /\ Completed

\* An update of the completed sound: nothing happens.
C20_WitnessIdle ==
    /\ soundLast.op = "update"
    /\ ~SoundBefore.isPlaying
    /\ ~SoundBefore.isPaused
    /\ SoundsBefore.tags[1].currentTime = SoundsBefore.tags[1].duration
    /\ UpdateIdle

----
(* Properties of the sound manager's update (SpecManager) *)

IdsOf(snds) == {snds[i].id : i \in DOMAIN snds}

TimesCalled(id) == Cardinality({i \in DOMAIN soundLast.called : soundLast.called[i] = id})

\* Before the update every listener aimed at a sound other than its own.
HandlersAimAtOthers ==
    \A i \in DOMAIN soundLast.pre.sounds :
        soundLast.pre.sounds[i].onUpdate.target # soundLast.pre.sounds[i].id

\* The sounds left are in the order they had before the update.
KeepsOrder ==
    \A i, j \in DOMAIN sounds :
        i < j => IndexOf(soundLast.pre.sounds, sounds[i].id)
                     < IndexOf(soundLast.pre.sounds, sounds[j].id)

\* C21: after an update no sound that was pendingRemove at its start is in
\* sounds, the sounds left keep their order, and update has been called
\* exactly once on every sound left, also when the listeners of a sound's
\* update remove or destroy other sounds of the manager during the pass.
C21_UpdateEveryRemaining ==
    (soundLast.op = "managerUpdate" /\ HandlersAimAtOthers) =>
        /\ \A i \in DOMAIN soundLast.pre.sounds :
               soundLast.pre.sounds[i].pendingRemove
                   => soundLast.pre.sounds[i].id \notin IdsOf(sounds)
        /\ KeepsOrder
        /\ \A id \in IdsOf(sounds) : TimesCalled(id) = 1

====
